---- MODULE Spec2Model ----
(***************************************************************************)
(* Model of src/scripts/generate-frequency-dictionaries.py: the frequency  *)
(* based generator of the guess and answer word lists.                     *)
(*                                                                         *)
(* Words and file contents are strings.  Zipf scores are integers in       *)
(* hundredths (wordfreq rounds zipf_frequency to two decimals), so 2.96 is *)
(* 296 and the thresholds 2.5, 3.0 and 2.0 are 250, 300 and 200.           *)
(***************************************************************************)
EXTENDS Integers, Sequences, FiniteSets, TLC

VARIABLES
  wordlist,          \* tokens enumerated by iter_wordlist('en')
  zipf,              \* the wordfreq table: lowercase token -> score
  pc,                \* position of main()
  all_source_words,  \* main: all_source_words
  guess_words,       \* main: guess_words
  answer_words,      \* main: answer_words
  rejected_guess,    \* generate_guess_words: rejected
  rejected_answer,   \* generate_answer_words: rejected
  errors,            \* validate_dictionaries: errors
  raised,            \* the exception that ended main(), "none" while it runs
  guess_file,        \* content of guess_words_clean.ts
  answer_file,       \* content of answer_words_expanded.ts
  ts_content,        \* load_word_list_from_ts: the text of the file it reads
  ts_result          \* load_word_list_from_ts: what the call produced

vars ==
  <<wordlist, zipf, pc, all_source_words, guess_words, answer_words,
    rejected_guess, rejected_answer, errors, raised, guess_file, answer_file,
    ts_content, ts_result>>

----------------------------------------------------------------------------
(* Bounds of the model *)

\* largest number of five-letter tokens in the enumerated vocabulary
MaxSource == 4

\* TARGET_GUESS_SIZE (7000 in the script), scaled to the bounded vocabulary
TARGET_GUESS_SIZE == 2

\* TARGET_ANSWER_SIZE (3500 in the script), scaled to the bounded vocabulary
TARGET_ANSWER_SIZE == 1

----------------------------------------------------------------------------
(* Configuration *)

MIN_ZIPF_GUESS == 250

MIN_ZIPF_ANSWER == 300

SPICE_ZIPF_THRESHOLD == 200

OFFENSIVE_BLACKLIST ==
  {
    "SLUTS", "WHORE", "BITCH", "COCKS", "CUNTS", "FUCKS", "SHITS",
    "PRICK", "PUSSY", "TARDS", "BITTY", "CRAPS", "HELLS"
  }

PROPER_NOUN_BLACKLIST ==
  {
    "JESUS", "CHINA", "INDIA", "SPAIN", "ITALY", "PARIS", "TOKYO",
    "JAMES", "JONES", "SMITH", "BROWN", "DAVIS", "MARCH", "APRIL",
    "ALICE", "BOBBY", "KAREN", "MASON", "LOGAN", "LUCAS", "HENRY",
    "WYATT", "ISAAC", "OSCAR", "ELLIE", "HAZEL", "CLARA", "ABBIE",
    "TEXAS", "ROMAN", "ISRAEL", "JUDAH", "JUDAS", "MOSES", "AARON",
    "PETER", "SIMON", "MENIL", "BASEL", "DAVOS", "QATAR", "DUBAI"
  }

SCRABBLE_GARBAGE ==
  {
    "AALII", "AAHED", "AARGH", "AARTI", "ABACA", "ABACI", "ABAFT",
    "ABAHT", "ABAKA", "ABAMP", "ABAND", "ABASK", "ABAYA", "ABCEE",
    "ABEAM", "ABEAR", "ABELE", "ABENG", "ABJAD", "ABJUD", "ABLET",
    "ABLOW", "ABMHO", "ABNET", "ABOHM", "ABOIL", "ABOMA", "ABOON",
    "XEBEC", "XEMES", "XENIA", "XENIC", "XYLAN", "XYLEM", "XYLIC",
    "XYLOL", "XYLYL", "XYSTI", "XYSTS", "YEXED", "YEXES", "QANAT",
    "QADIS", "QAIDS", "QAJAQ", "QAPHS", "QAPIK", "QIBLA", "QINAH",
    "QINTA", "QIRSH", "QOPHS", "QORMA", "ZAYIN", "ZEALS", "ZEBEC",
    "ZEBUB", "ZIBET", "ZIFFS", "ZIGAN", "ZILAS", "ZOMBI", "ZONAE",
    "ZONDA", "ZOOEA", "ZOOID", "ZOOKS", "ZOOMY", "ZOONS", "ZOOTY"
  }

----------------------------------------------------------------------------
(* Strings: characters, case, ordering *)

UpperLetters == "ABCDEFGHIJKLMNOPQRSTUVWXYZ"

LowerLetters == "abcdefghijklmnopqrstuvwxyz"

\* the i-th character of s, as a one-character string
CharAt(s, i) == SubSeq(s, i, i)

\* the characters A-Z
UpperChars == {CharAt(UpperLetters, k) : k \in 1..26}

\* the characters a-z
LowerChars == {CharAt(LowerLetters, k) : k \in 1..26}

\* position of a letter in the alphabet, which orders the letters of one
\* case as their code points do
LetterIndex ==
  [c \in UpperChars \cup LowerChars |->
     CHOOSE k \in 1..26 : CharAt(UpperLetters, k) = c \/ CharAt(LowerLetters, k) = c]

\* the elements of a sequence
Range(s) == {s[i] : i \in 1..Len(s)}

\* str.upper() of one character: a-z go to A-Z, anything else is unchanged
UpperChar ==
  [c \in LowerChars |-> CharAt(UpperLetters, LetterIndex[c])]

\* str.lower() of one character: A-Z go to a-z, anything else is unchanged
LowerChar ==
  [c \in UpperChars |-> CharAt(LowerLetters, LetterIndex[c])]

RECURSIVE UpperFrom(_, _)
\* word.upper() from the i-th character on
UpperFrom(s, i) ==
  IF i > Len(s) THEN ""
  ELSE LET c == CharAt(s, i)
       IN  (IF c \in LowerChars THEN UpperChar[c] ELSE c) \o UpperFrom(s, i + 1)

\* word.upper()
Upper(s) == UpperFrom(s, 1)

RECURSIVE LowerFrom(_, _)
\* word.lower() from the i-th character on
LowerFrom(s, i) ==
  IF i > Len(s) THEN ""
  ELSE LET c == CharAt(s, i)
       IN  (IF c \in UpperChars THEN LowerChar[c] ELSE c) \o LowerFrom(s, i + 1)

\* word.lower()
Lower(s) == LowerFrom(s, 1)

\* word.endswith(suffix)
EndsWith(word, suffix) ==
  /\ Len(word) >= Len(suffix)
  /\ SubSeq(word, Len(word) - Len(suffix) + 1, Len(word)) = suffix

\* re.match(r'^[a-z]{5}$', word) on a token without line breaks
MatchesLower5(word) ==
  /\ Len(word) = 5
  /\ \A i \in 1..5 : CharAt(word, i) \in LowerChars

\* re.match(r'^[A-Z]{5}$', word) on a word without line breaks
MatchesUpper5(word) ==
  /\ Len(word) = 5
  /\ \A i \in 1..5 : CharAt(word, i) \in UpperChars

\* the characters the model's strings are made of, by ascending code point
CodePointOrder ==
  "\n \"',0123456789:;=ABCDEFGHIJKLMNOPQRSTUVWXYZ[]abcdefghijklmnopqrstuvwxyz"

\* position of a character in that order
CodePointIndex ==
  [c \in {CharAt(CodePointOrder, k) : k \in 1..Len(CodePointOrder)} |->
     CHOOSE k \in 1..Len(CodePointOrder) : CharAt(CodePointOrder, k) = c]

RECURSIVE StrLessFrom(_, _, _)
\* a < b, given that a and b agree before position i
StrLessFrom(a, b, i) ==
  IF i > Len(b) THEN FALSE
  ELSE IF i > Len(a) THEN TRUE
  ELSE IF CharAt(a, i) = CharAt(b, i) THEN StrLessFrom(a, b, i + 1)
  ELSE CodePointIndex[CharAt(a, i)] < CodePointIndex[CharAt(b, i)]

\* Python's a < b on strings: lexicographic by code point, a proper prefix
\* being smaller
StrLess(a, b) == StrLessFrom(a, b, 1)

----------------------------------------------------------------------------
(* Helper functions of the script *)

\* the loop body's test in load_all_five_letter_words_from_wordfreq
IsFiveLetterToken(word) == Len(word) = 5 /\ MatchesLower5(word)

load_all_five_letter_words_from_wordfreq(tokens) ==
  {Upper(word) : word \in {t \in tokens : IsFiveLetterToken(t)}}

\* a lookup of the lower-cased word in the upper-case blacklist
is_offensive_lowercased(word) == Lower(word) \in OFFENSIVE_BLACKLIST

is_offensive(word) == word \in OFFENSIVE_BLACKLIST

is_proper_noun(word) == word \in PROPER_NOUN_BLACKLIST

is_scrabble_garbage(word) == word \in SCRABBLE_GARBAGE

\* wordfreq.zipf_frequency(token, 'en'): 0.0 for a token it does not know
zipf_frequency(table, token) ==
  IF token \in DOMAIN table THEN table[token] ELSE 0

get_frequency_score(table, word) == zipf_frequency(table, Lower(word))

\* the non_plural_endings of is_likely_plural
non_plural_endings == {"SS", "US", "IS", "AS"}

\* the non_plural_words of is_likely_plural
non_plural_words ==
  {
    "BRASS", "CHESS", "CLASS", "CROSS", "DRESS", "GLASS", "GRASS",
    "GUESS", "BLESS", "BLISS", "ABYSS", "TRUSS", "FLOSS", "GLOSS",
    "ALIAS", "ATLAS", "BASIS", "OASIS", "VIRUS", "FOCUS", "GENUS",
    "MINUS", "NEXUS", "BONUS", "GROSS", "LOSS", "MASS", "MISS",
    "PASS", "BOSS", "TOSS", "KISS", "PRESS", "STRESS", "CHAOS",
    "CRASS"
  }

\* the plural test with >= for > at the floor of the stem's score
is_likely_plural_at_floor(table, word) ==
  IF ~EndsWith(word, "S") THEN FALSE
  ELSE IF \E ending \in non_plural_endings : EndsWith(word, ending) THEN FALSE
  ELSE IF word \in non_plural_words THEN FALSE
  ELSE LET singular == SubSeq(word, 1, Len(word) - 1)
       IN  IF Len(singular) = 4
           THEN get_frequency_score(table, singular) >= 200
           ELSE FALSE

is_likely_plural(table, word) ==
  IF ~EndsWith(word, "S") THEN FALSE
  ELSE IF \E ending \in non_plural_endings : EndsWith(word, ending) THEN FALSE
  ELSE IF word \in non_plural_words THEN FALSE
  ELSE LET singular == SubSeq(word, 1, Len(word) - 1)
       IN  IF Len(singular) = 4
           THEN get_frequency_score(table, singular) > 200
           ELSE FALSE

----------------------------------------------------------------------------
(* Ranking and sorting *)

\* key=lambda x: (x[1], x[0]): rarest first
RankKeyLessAscending(a, b) ==
  \/ a[2] < b[2]
  \/ /\ a[2] = b[2]
     /\ StrLess(a[1], b[1])

\* key=lambda x: -x[1]: equal scores stay in the order of the iteration
RankKeyLessFreqOnly(a, b) == -a[2] < -b[2]

\* key=lambda x: (-x[1], x[0]): a's key is smaller than b's key
RankKeyLess(a, b) ==
  \/ -a[2] < -b[2]
  \/ /\ -a[2] = -b[2]
     /\ StrLess(a[1], b[1])

\* one step of a stable sort: e goes before the first element whose key is
\* larger than e's, after every element whose key is smaller or equal
InsertByRank(sorted, e) ==
  LET later == {i \in 1..Len(sorted) : RankKeyLess(e, sorted[i])}
      at == IF later = {} THEN Len(sorted) + 1
            ELSE CHOOSE i \in later : \A j \in later : i <= j
  IN  SubSeq(sorted, 1, at - 1) \o <<e>> \o SubSeq(sorted, at, Len(sorted))

RECURSIVE SortByRank(_)
\* list.sort(key=lambda x: (-x[1], x[0])), a stable sort
SortByRank(s) ==
  IF Len(s) = 0 THEN <<>>
  ELSE InsertByRank(SortByRank(SubSeq(s, 1, Len(s) - 1)), s[Len(s)])

InsertWord(sorted, w) ==
  LET later == {i \in 1..Len(sorted) : StrLess(w, sorted[i])}
      at == IF later = {} THEN Len(sorted) + 1
            ELSE CHOOSE i \in later : \A j \in later : i <= j
  IN  SubSeq(sorted, 1, at - 1) \o <<w>> \o SubSeq(sorted, at, Len(sorted))

\* a generator that returns its words in rank order
SortWordsSkipped(s) == s

RECURSIVE SortWords(_)
\* list.sort() and sorted() on a list of words, a stable sort
SortWords(s) ==
  IF Len(s) = 0 THEN <<>>
  ELSE InsertWord(SortWords(SubSeq(s, 1, Len(s) - 1)), s[Len(s)])

\* valid_words[:n]
Take(s, n) == SubSeq(s, 1, IF Len(s) < n THEN Len(s) ELSE n)

\* [word for word, freq in pairs]
WordsOf(pairs) == [i \in 1..Len(pairs) |-> pairs[i][1]]

----------------------------------------------------------------------------
(* generate_guess_words *)

\* the value get_frequency_score returns for each of the words
FrequencyScores(table, words) ==
  [word \in words |-> get_frequency_score(table, word)]

\* candidates_with_freq of either generator: the words in the order the
\* iteration yields them, each with its score
WithFreq(freq, order) ==
  [i \in 1..Len(order) |-> <<order[i], freq[order[i]]>>]

\* the guess pass with the threshold of its docstring (Zipf >= 3.0)
GuessTooRareDocstring(freq) == freq < MIN_ZIPF_ANSWER

\* the guess pass with its floor below the spice threshold
GuessTooRareBelowSpice(freq) == freq < SPICE_ZIPF_THRESHOLD - 50

\* the frequency check of the guess pass
GuessTooRare(freq) == freq < MIN_ZIPF_GUESS

NoGuessRejections ==
  [offensive |-> 0, proper_noun |-> 0, scrabble_garbage |-> 0, too_rare |-> 0]

RECURSIVE GuessFilter(_, _)
\* the filter loop of generate_guess_words after its first n candidates
GuessFilter(cands, n) ==
  IF n = 0 THEN [valid |-> <<>>, rejected |-> NoGuessRejections]
  ELSE LET prev == GuessFilter(cands, n - 1)
           word == cands[n][1]
           freq == cands[n][2]
       IN  IF is_offensive(word)
             THEN [prev EXCEPT !.rejected.offensive = @ + 1]
           ELSE IF is_proper_noun(word)
             THEN [prev EXCEPT !.rejected.proper_noun = @ + 1]
           ELSE IF is_scrabble_garbage(word)
             THEN [prev EXCEPT !.rejected.scrabble_garbage = @ + 1]
           ELSE IF GuessTooRare(freq)
             THEN [prev EXCEPT !.rejected.too_rare = @ + 1]
           ELSE [prev EXCEPT !.valid = Append(@, <<word, freq>>)]

\* the selection of the guess pass: rank, then keep the top TARGET_GUESS_SIZE
GuessSelect(valid) == WordsOf(Take(SortByRank(valid), TARGET_GUESS_SIZE))

\* generate_guess_words, for the scores of the source words and the order in
\* which the source set is iterated
generate_guess_words(freq, order) ==
  LET cands    == WithFreq(freq, order)
      filtered == GuessFilter(cands, Len(cands))
  IN  [final_words |-> SortWords(GuessSelect(filtered.valid)),
       rejected    |-> filtered.rejected]

----------------------------------------------------------------------------
(* generate_answer_words *)

\* the frequency check of the answer pass without the spice allowance
AnswerTooRareStrict(freq) == freq < MIN_ZIPF_ANSWER

\* the frequency check of the answer pass, with its spice allowance
AnswerTooRare(freq) == freq < MIN_ZIPF_ANSWER /\ freq < SPICE_ZIPF_THRESHOLD

NoAnswerRejections == [plural |-> 0, too_rare |-> 0]

RECURSIVE AnswerFilter(_, _, _)
\* the filter loop of generate_answer_words after its first n candidates
AnswerFilter(table, cands, n) ==
  IF n = 0 THEN [valid |-> <<>>, rejected |-> NoAnswerRejections]
  ELSE LET prev == AnswerFilter(table, cands, n - 1)
           word == cands[n][1]
           freq == cands[n][2]
       IN  IF is_likely_plural(table, word)
             THEN [prev EXCEPT !.rejected.plural = @ + 1]
           ELSE IF AnswerTooRare(freq)
             THEN [prev EXCEPT !.rejected.too_rare = @ + 1]
           ELSE [prev EXCEPT !.valid = Append(@, <<word, freq>>)]

\* the selection of the answer pass: rank, then keep the top TARGET_ANSWER_SIZE
AnswerSelect(valid) == WordsOf(Take(SortByRank(valid), TARGET_ANSWER_SIZE))

\* generate_answer_words, for the list it is given
generate_answer_words(table, guess_list) ==
  LET freq     == FrequencyScores(table, Range(guess_list))
      cands    == WithFreq(freq, guess_list)
      filtered == AnswerFilter(table, cands, Len(cands))
  IN  [final_words |-> SortWords(AnswerSelect(filtered.valid)),
       rejected    |-> filtered.rejected]

----------------------------------------------------------------------------
(* validate_dictionaries *)

\* re.match(r'^[A-Z]{5}$', word): $ also matches before a final line break
MatchesWordFormat(word) ==
  \/ MatchesUpper5(word)
  \/ /\ Len(word) = 6
     /\ MatchesUpper5(SubSeq(word, 1, 5))
     /\ CharAt(word, 6) = "\n"

\* the messages of the format check, one per offending entry
FormatErrors(guess_list, answer_list) ==
  LET all == guess_list \o answer_list
      bad == SelectSeq(all, LAMBDA w : ~MatchesWordFormat(w))
  IN  [i \in 1..Len(bad) |-> <<"Invalid format", bad[i]>>]

\* the messages of the duplicate check
DuplicateErrors(guess_list, answer_list) ==
  (IF Cardinality(Range(guess_list)) # Len(guess_list)
     THEN <<(<<"GUESS_WORDS_CLEAN has duplicates">>)>> ELSE <<>>)
  \o
  (IF Cardinality(Range(answer_list)) # Len(answer_list)
     THEN <<(<<"ANSWER_WORDS_EXPANDED has duplicates">>)>> ELSE <<>>)

\* the messages of the subset check, one per answer entry not a guess word
SubsetErrors(guess_list, answer_list) ==
  LET guess_set == Range(guess_list)
      bad == SelectSeq(answer_list, LAMBDA w : w \notin guess_set)
  IN  [i \in 1..Len(bad) |-> <<"Answer word not in guess words", bad[i]>>]

\* the messages of the alphabetical-order check
OrderErrors(guess_list, answer_list) ==
  (IF guess_list # SortWords(guess_list)
     THEN <<(<<"GUESS_WORDS_CLEAN not alphabetically sorted">>)>> ELSE <<>>)
  \o
  (IF answer_list # SortWords(answer_list)
     THEN <<(<<"ANSWER_WORDS_EXPANDED not alphabetically sorted">>)>> ELSE <<>>)

\* the garbage_words of the regression tests
garbage_words == <<"AALII", "AARGH", "XYSTI", "YEXED", "QANAT">>

\* regression tests that only warn when CRASS is missing from the guess list
RegressionErrorsCrassWarned(guess_list, answer_list) ==
  (IF "MENIL" \notin Range(guess_list)
     THEN <<>> ELSE <<(<<"MENIL present in GUESS_WORDS_CLEAN">>)>>)
  \o
  (IF "MENIL" \notin Range(answer_list)
     THEN <<>> ELSE <<(<<"MENIL present in ANSWER_WORDS_EXPANDED">>)>>)
  \o
  (LET present_garbage ==
         SelectSeq(garbage_words, LAMBDA w : w \in Range(guess_list))
   IN  IF present_garbage # <<>>
         THEN <<(<<"Garbage words present", present_garbage>>)>> ELSE <<>>)

\* the messages of the regression tests
RegressionErrors(guess_list, answer_list) ==
  (IF "CRASS" \in Range(guess_list)
     THEN <<>> ELSE <<(<<"CRASS missing from GUESS_WORDS_CLEAN">>)>>)
  \o
  (IF "MENIL" \notin Range(guess_list)
     THEN <<>> ELSE <<(<<"MENIL present in GUESS_WORDS_CLEAN">>)>>)
  \o
  (IF "MENIL" \notin Range(answer_list)
     THEN <<>> ELSE <<(<<"MENIL present in ANSWER_WORDS_EXPANDED">>)>>)
  \o
  (LET present_garbage ==
         SelectSeq(garbage_words, LAMBDA w : w \in Range(guess_list))
   IN  IF present_garbage # <<>>
         THEN <<(<<"Garbage words present", present_garbage>>)>> ELSE <<>>)

\* a validator that stops at the first check that finds something
validate_dictionaries_first_only(guess_list, answer_list) ==
  IF FormatErrors(guess_list, answer_list) # <<>>
    THEN FormatErrors(guess_list, answer_list)
  ELSE IF DuplicateErrors(guess_list, answer_list) # <<>>
    THEN DuplicateErrors(guess_list, answer_list)
  ELSE IF SubsetErrors(guess_list, answer_list) # <<>>
    THEN SubsetErrors(guess_list, answer_list)
  ELSE IF OrderErrors(guess_list, answer_list) # <<>>
    THEN OrderErrors(guess_list, answer_list)
  ELSE RegressionErrors(guess_list, answer_list)

\* the errors list validate_dictionaries has built when it reaches its end
validate_dictionaries(guess_list, answer_list) ==
  FormatErrors(guess_list, answer_list)
  \o DuplicateErrors(guess_list, answer_list)
  \o SubsetErrors(guess_list, answer_list)
  \o OrderErrors(guess_list, answer_list)
  \o RegressionErrors(guess_list, answer_list)

\* a validator that prints its errors and returns
ValidationNeverRaises(errs) == FALSE

\* if errors: raise ValueError("Validation failed")
ValidationRaises(errs) == errs # <<>>

----------------------------------------------------------------------------
(* write_word_list_to_ts and load_word_list_from_ts *)

RECURSIVE JoinLines(_)
\* ',\n'.join(f'  "{word}"' for word in words)
JoinLines(words) ==
  IF Len(words) = 0 THEN ""
  ELSE IF Len(words) = 1 THEN "  \"" \o words[1] \o "\""
  ELSE "  \"" \o words[1] \o "\"" \o ",\n" \o JoinLines(Tail(words))

\* the content write_word_list_to_ts builds
TsContent(words, var_name) ==
  "export const " \o var_name \o ": string[] = [\n"
  \o JoinLines(words)
  \o "\n];\n"

\* positions of the character c in the text
PositionsOf(text, c) == {i \in 1..Len(text) : CharAt(text, i) = c}

\* the pattern with + for *: the brackets must enclose something
HasArrayNonEmpty(content) ==
  \E i \in PositionsOf(content, "["), j \in PositionsOf(content, "]") : i + 1 < j

\* re.search(r'\[([\s\S]*)\]', content) finds a match
HasArray(content) ==
  \E i \in PositionsOf(content, "["), j \in PositionsOf(content, "]") : i < j

\* match.group(1): from after the first [ that has a ] behind it, which is
\* the first [ of such a text, up to the last ] (the star is greedy)
ArrayContent(content) ==
  LET opens  == PositionsOf(content, "[")
      closes == PositionsOf(content, "]")
      first  == CHOOSE i \in opens : \A k \in opens : i <= k
      last   == CHOOSE j \in closes : \A k \in closes : k <= j
  IN  SubSeq(content, first + 1, last - 1)

\* the pattern "([A-Z]{5})" matches at position p of the text
QuotedWordAt(text, p) ==
  /\ p + 6 <= Len(text)
  /\ CharAt(text, p) = "\""
  /\ MatchesUpper5(SubSeq(text, p + 1, p + 5))
  /\ CharAt(text, p + 6) = "\""

RECURSIVE FindQuotedWords(_, _)
\* re.findall(r'"([A-Z]{5})"', text) from position p on: the matches from
\* left to right, none overlapping the one before it
FindQuotedWords(text, p) ==
  IF p > Len(text) THEN <<>>
  ELSE IF QuotedWordAt(text, p)
    THEN <<SubSeq(text, p + 1, p + 5)>> \o FindQuotedWords(text, p + 7)
  ELSE FindQuotedWords(text, p + 1)

\* load_word_list_from_ts on the text of a readable file
load_word_list_from_ts(content) ==
  IF ~HasArray(content)
    THEN [raised |-> "ValueError", words |-> {}]
  ELSE [raised |-> "none",
        words  |-> Range(FindQuotedWords(ArrayContent(content), 1))]

----------------------------------------------------------------------------
(* The inputs of a run *)

\* five-letter tokens the vocabulary may enumerate
CorpusTokens == {"aalii", "bitty", "cards", "crass", "menil", "sweet"}

\* tokens the vocabulary enumerates that are not five lower-case letters
JunkTokens == {"card", "can't", "ab1de", "houses"}

\* scores a five-letter token may have
ScoreValues == {171, 296, 300}

\* scores the four-letter stem of a token may have
StemScoreValues == {200, 250}

\* four-letter stems whose score is_likely_plural can read
StemsOf(tokens) ==
  {SubSeq(t, 1, 4) : t \in {u \in tokens : EndsWith(u, "s") /\ ~EndsWith(u, "ss")}}

\* the wordfreq tables over the tokens whose score a run can read
ZipfTables(tokens) ==
  {w @@ st : w \in [tokens -> ScoreValues],
            st \in [StemsOf(tokens) -> StemScoreValues]}

\* the enumerated vocabularies
Vocabularies ==
  {tokens \in SUBSET CorpusTokens : Cardinality(tokens) <= MaxSource}

RECURSIVE Orders(_)
\* the orders in which iterating a set can yield its elements
Orders(S) ==
  IF S = {} THEN {<<>>}
  ELSE UNION {{<<x>> \o rest : rest \in Orders(S \ {x})} : x \in S}

RECURSIVE AnOrder(_)
\* one of these orders
AnOrder(S) ==
  IF S = {} THEN <<>>
  ELSE LET x == CHOOSE y \in S : TRUE
       IN  <<x>> \o AnOrder(S \ {x})

\* the output files as an earlier run left them
OldGuessFile == TsContent(<<"OLDER", "WORDS">>, "GUESS_WORDS_CLEAN")

OldAnswerFile == TsContent(<<"OLDER">>, "ANSWER_WORDS_EXPANDED")

----------------------------------------------------------------------------
(* main *)

Init ==
  /\ \E tokens \in Vocabularies :
       /\ wordlist = tokens \cup JunkTokens
       /\ zipf \in ZipfTables(tokens)
  /\ pc = "load"
  /\ all_source_words = {}
  /\ guess_words = <<>>
  /\ answer_words = <<>>
  /\ rejected_guess = NoGuessRejections
  /\ rejected_answer = NoAnswerRejections
  /\ errors = <<>>
  /\ raised = "none"
  /\ guess_file = OldGuessFile
  /\ answer_file = OldAnswerFile
  /\ ts_content = ""
  /\ ts_result = [raised |-> "none", words |-> {}]

\* all_source_words = load_all_five_letter_words_from_wordfreq()
LoadSource ==
  /\ pc = "load"
  /\ all_source_words' = load_all_five_letter_words_from_wordfreq(wordlist)
  /\ pc' = "guess"
  /\ UNCHANGED <<wordlist, zipf, guess_words, answer_words, rejected_guess,
                 rejected_answer, errors, raised, guess_file, answer_file,
                 ts_content, ts_result>>

\* the vocabulary data cannot be read: iter_wordlist raises
LoadSourceFails ==
  /\ pc = "load"
  /\ pc' = "failed"
  /\ raised' = "LookupError"
  /\ UNCHANGED <<wordlist, zipf, all_source_words, guess_words, answer_words,
                 rejected_guess, rejected_answer, errors, guess_file,
                 answer_file, ts_content, ts_result>>

\* guess_words = generate_guess_words(all_source_words)
GenerateGuess ==
  /\ pc = "guess"
  /\ \E freq \in {FrequencyScores(zipf, all_source_words)} :
       \E order \in Orders(all_source_words) :
         \E r \in {generate_guess_words(freq, order)} :
           /\ guess_words' = r.final_words
           /\ rejected_guess' = r.rejected
  /\ pc' = "answer"
  /\ UNCHANGED <<wordlist, zipf, all_source_words, answer_words,
                 rejected_answer, errors, raised, guess_file, answer_file,
                 ts_content, ts_result>>

\* a main that hands the raw source words to generate_answer_words
AnswerPoolFromSource(source_words, guess_list) == AnOrder(source_words)

\* the list main passes to generate_answer_words
AnswerPool(source_words, guess_list) == guess_list

\* answer_words = generate_answer_words(guess_words)
GenerateAnswer ==
  /\ pc = "answer"
  /\ \E r \in {generate_answer_words(zipf, AnswerPool(all_source_words, guess_words))} :
       /\ answer_words' = r.final_words
       /\ rejected_answer' = r.rejected
  /\ pc' = "validate"
  /\ UNCHANGED <<wordlist, zipf, all_source_words, guess_words, rejected_guess,
                 errors, raised, guess_file, answer_file, ts_content, ts_result>>

\* validate_dictionaries(guess_words, answer_words)
Validate ==
  /\ pc = "validate"
  /\ errors' = validate_dictionaries(guess_words, answer_words)
  /\ IF ValidationRaises(errors')
       THEN pc' = "failed" /\ raised' = "ValueError"
       ELSE pc' = "write_guess" /\ raised' = raised
  /\ UNCHANGED <<wordlist, zipf, all_source_words, guess_words, answer_words,
                 rejected_guess, rejected_answer, guess_file, answer_file,
                 ts_content, ts_result>>

\* what a file can hold after filepath.write_text(content) raised: its old
\* text when it could not be opened, nothing when the write failed after
\* the open truncated it
AfterFailedWrite(old) == {old, ""}

\* write_word_list_to_ts(OUTPUT_GUESS_WORDS, guess_words, 'GUESS_WORDS_CLEAN')
WriteGuess ==
  /\ pc = "write_guess"
  /\ guess_file' = TsContent(guess_words, "GUESS_WORDS_CLEAN")
  /\ pc' = "write_answer"
  /\ UNCHANGED <<wordlist, zipf, all_source_words, guess_words, answer_words,
                 rejected_guess, rejected_answer, errors, raised, answer_file,
                 ts_content, ts_result>>

\* the same call when write_text raises OSError
WriteGuessFails ==
  /\ pc = "write_guess"
  /\ guess_file' \in AfterFailedWrite(guess_file)
  /\ pc' = "failed"
  /\ raised' = "OSError"
  /\ UNCHANGED <<wordlist, zipf, all_source_words, guess_words, answer_words,
                 rejected_guess, rejected_answer, errors, answer_file,
                 ts_content, ts_result>>

\* write_word_list_to_ts(OUTPUT_ANSWER_WORDS, answer_words, 'ANSWER_WORDS_EXPANDED')
WriteAnswer ==
  /\ pc = "write_answer"
  /\ answer_file' = TsContent(answer_words, "ANSWER_WORDS_EXPANDED")
  /\ pc' = "report"
  /\ UNCHANGED <<wordlist, zipf, all_source_words, guess_words, answer_words,
                 rejected_guess, rejected_answer, errors, raised, guess_file,
                 ts_content, ts_result>>

\* the same call when write_text raises OSError
WriteAnswerFails ==
  /\ pc = "write_answer"
  /\ answer_file' \in AfterFailedWrite(answer_file)
  /\ pc' = "failed"
  /\ raised' = "OSError"
  /\ UNCHANGED <<wordlist, zipf, all_source_words, guess_words, answer_words,
                 rejected_guess, rejected_answer, errors, guess_file,
                 ts_content, ts_result>>

\* the closing report; relative_to(Path.cwd()) raises ValueError when the
\* data directory is not below the working directory
Report ==
  /\ pc = "report"
  /\ \E below_cwd \in BOOLEAN :
       IF below_cwd
         THEN pc' = "done" /\ raised' = raised
         ELSE pc' = "failed" /\ raised' = "ValueError"
  /\ UNCHANGED <<wordlist, zipf, all_source_words, guess_words, answer_words,
                 rejected_guess, rejected_answer, errors, guess_file,
                 answer_file, ts_content, ts_result>>

Next ==
  \/ LoadSource
  \/ LoadSourceFails
  \/ GenerateGuess
  \/ GenerateAnswer
  \/ Validate
  \/ WriteGuess
  \/ WriteGuessFails
  \/ WriteAnswer
  \/ WriteAnswerFails
  \/ Report

Spec == Init /\ [][Next]_vars

----------------------------------------------------------------------------
(* load_word_list_from_ts applied to bounded file texts *)

\* longest text, counted in pieces
MaxPieces == 3

\* fragments a legacy file is put together from
TsPieces == {"[", "]", "\"CRASS\"", "\"SWEET\"", "\"crass\"", "SWEET\"", ",\n"}

RECURSIVE TextsOf(_)
\* the texts of exactly n pieces
TextsOf(n) ==
  IF n = 0 THEN {""}
  ELSE {t \o piece : t \in TextsOf(n - 1), piece \in TsPieces}

\* the texts the loader is applied to: every text of up to MaxPieces pieces,
\* and files as write_word_list_to_ts leaves them
TsContents ==
  UNION {TextsOf(n) : n \in 0..MaxPieces}
  \cup {TsContent(ws, "GUESS_WORDS") :
          ws \in {<<>>, <<"CRASS">>, <<"CRASS", "SWEET">>}}

InitTs ==
  /\ ts_content \in TsContents
  /\ ts_result = [raised |-> "none", words |-> {}]
  /\ pc = "ts_load"
  /\ wordlist = {}
  /\ zipf = <<>>
  /\ all_source_words = {}
  /\ guess_words = <<>>
  /\ answer_words = <<>>
  /\ rejected_guess = NoGuessRejections
  /\ rejected_answer = NoAnswerRejections
  /\ errors = <<>>
  /\ raised = "none"
  /\ guess_file = OldGuessFile
  /\ answer_file = OldAnswerFile

\* a call of load_word_list_from_ts on a readable file
LoadTs ==
  /\ pc = "ts_load"
  /\ ts_result' = load_word_list_from_ts(ts_content)
  /\ pc' = IF ts_result'.raised = "none" THEN "ts_done" ELSE "ts_failed"
  /\ UNCHANGED <<wordlist, zipf, all_source_words, guess_words, answer_words,
                 rejected_guess, rejected_answer, errors, raised, guess_file,
                 answer_file, ts_content>>

NextTs == LoadTs

SpecTs == InitTs /\ [][NextTs]_vars

----------------------------------------------------------------------------
(* validate_dictionaries applied to bounded pairs of lists *)

\* longest list handed to validate_dictionaries
MaxListLen == 2

\* entries of these lists: words of the regression tests, another word, and
\* an entry that is not five upper-case letters
ValidatorEntries == {"AALII", "CRASS", "MENIL", "SWEET", "crass"}

\* the lists of up to n entries
ListsOver(entries, n) == UNION {[1..k -> entries] : k \in 0..n}

InitVal ==
  /\ guess_words \in ListsOver(ValidatorEntries, MaxListLen)
  /\ answer_words \in ListsOver(ValidatorEntries, MaxListLen)
  /\ errors = <<>>
  /\ raised = "none"
  /\ pc = "val_call"
  /\ wordlist = {}
  /\ zipf = <<>>
  /\ all_source_words = {}
  /\ rejected_guess = NoGuessRejections
  /\ rejected_answer = NoAnswerRejections
  /\ guess_file = OldGuessFile
  /\ answer_file = OldAnswerFile
  /\ ts_content = ""
  /\ ts_result = [raised |-> "none", words |-> {}]

\* a call of validate_dictionaries(guess_words, answer_words)
ValidateLists ==
  /\ pc = "val_call"
  /\ errors' = validate_dictionaries(guess_words, answer_words)
  /\ IF ValidationRaises(errors')
       THEN pc' = "val_failed" /\ raised' = "ValueError"
       ELSE pc' = "val_passed" /\ raised' = raised
  /\ UNCHANGED <<wordlist, zipf, all_source_words, guess_words, answer_words,
                 rejected_guess, rejected_answer, guess_file, answer_file,
                 ts_content, ts_result>>

NextVal == ValidateLists

SpecVal == InitVal /\ [][NextVal]_vars

----------------------------------------------------------------------------
(* generate_answer_words applied to bounded lists *)

\* entries of the lists handed to generate_answer_words: a plural, words of
\* the exception set, words with a protected ending, a word without S
AnswerEntries ==
  {"CARDS", "CHAOS", "CROSS", "GLASS", "LOTUS", "SODAS", "SWEET", "TAXIS"}

\* scores a word of these lists may have
AnswerScoreValues == {171, 300}

\* the wordfreq tables over the words of a list and the four-letter stems of
\* those that end in S
AnswerTables(words) ==
  LET tokens == {Lower(w) : w \in words}
      stems  == {SubSeq(t, 1, 4) : t \in {u \in tokens : EndsWith(u, "s")}}
  IN  {w @@ st : w \in [tokens -> AnswerScoreValues],
                 st \in [stems -> StemScoreValues]}

InitAns ==
  /\ guess_words \in ListsOver(AnswerEntries, MaxListLen)
  /\ zipf \in AnswerTables(Range(guess_words))
  /\ answer_words = <<>>
  /\ rejected_answer = NoAnswerRejections
  /\ pc = "ans_call"
  /\ wordlist = {}
  /\ all_source_words = {}
  /\ rejected_guess = NoGuessRejections
  /\ errors = <<>>
  /\ raised = "none"
  /\ guess_file = OldGuessFile
  /\ answer_file = OldAnswerFile
  /\ ts_content = ""
  /\ ts_result = [raised |-> "none", words |-> {}]

\* a call of generate_answer_words(guess_words)
ApplyAnswerPass ==
  /\ pc = "ans_call"
  /\ \E r \in {generate_answer_words(zipf, guess_words)} :
       /\ answer_words' = r.final_words
       /\ rejected_answer' = r.rejected
  /\ pc' = "ans_done"
  /\ UNCHANGED <<wordlist, zipf, all_source_words, guess_words, rejected_guess,
                 errors, raised, guess_file, answer_file, ts_content, ts_result>>

NextAns == ApplyAnswerPass

SpecAns == InitAns /\ [][NextAns]_vars

----------------------------------------------------------------------------
(* Properties *)

\* the score the run reads for a word
ScoreOf(word) == get_frequency_score(zipf, word)

\* every blacklisted word
Blacklisted == OFFENSIVE_BLACKLIST \cup PROPER_NOUN_BLACKLIST \cup SCRABBLE_GARBAGE

\* v comes before w when ranked by score descending, then word ascending
RanksBefore(v, w) ==
  \/ ScoreOf(v) > ScoreOf(w)
  \/ ScoreOf(v) = ScoreOf(w) /\ StrLess(v, w)

\* the first n words of a set in that ranking
TopRanked(S, n) == {w \in S : Cardinality({v \in S : RanksBefore(v, w)}) < n}

\* the source words the filter of the guess pass lets through
GuessSurvivors ==
  LET order == AnOrder(all_source_words)
      freq  == FrequencyScores(zipf, all_source_words)
  IN  Range(WordsOf(GuessFilter(WithFreq(freq, order), Len(order)).valid))

\* the guess words the filter of the answer pass lets through
AnswerSurvivors ==
  LET freq == FrequencyScores(zipf, Range(guess_words))
  IN  Range(WordsOf(AnswerFilter(zipf, WithFreq(freq, guess_words),
                                 Len(guess_words)).valid))

\* main has returned from generate_guess_words
GuessDone == pc \in {"answer", "validate", "write_guess", "write_answer", "report", "done"}

\* main has returned from generate_answer_words
AnswerDone == pc \in {"validate", "write_guess", "write_answer", "report", "done"}

\* l is strictly ascending in alphabetical order
StrictlyAscending(l) == \A i, j \in 1..Len(l) : i < j => StrLess(l[i], l[j])

\* C1: every word of the answer list is a word of the guess list, and when
\* both files hold the lists of this run every word read back from the
\* answer file is read back from the guess file
C1_AnswerSubsetOfGuess ==
  /\ Range(answer_words) \subseteq Range(guess_words)
  /\ (/\ guess_file = TsContent(guess_words, "GUESS_WORDS_CLEAN")
      /\ answer_file = TsContent(answer_words, "ANSWER_WORDS_EXPANDED"))
     => /\ load_word_list_from_ts(answer_file).words
             \subseteq load_word_list_from_ts(guess_file).words
        /\ load_word_list_from_ts(answer_file).words = Range(answer_words)

\* C1 witness: both files written, a non-empty answer list smaller than the guess list
C1_Witness ==
  /\ pc = "done"
  /\ answer_words # <<>>
  /\ Len(answer_words) < Len(guess_words)
  /\ answer_file = TsContent(answer_words, "ANSWER_WORDS_EXPANDED")

\* C2: a step changes an output file only at one of the two write calls,
\* which main reaches only after validate_dictionaries built an empty
\* errors list for the very lists it holds
C2_NoWriteUnlessValidated ==
  [][(guess_file' # guess_file \/ answer_file' # answer_file)
       => /\ pc \in {"write_guess", "write_answer"}
          /\ errors = <<>>
          /\ errors = validate_dictionaries(guess_words, answer_words)
          /\ raised = "none"]_vars

\* C2 witness: validation reported violations, the run ended, no file was touched
C2_Witness ==
  /\ pc = "failed"
  /\ raised = "ValueError"
  /\ errors # <<>>
  /\ guess_file = OldGuessFile
  /\ answer_file = OldAnswerFile

\* C3 (as claimed): when main has ended, normally or by an error, either
\* both files hold the new lists or neither file has been modified
C3_AllOrNothing ==
  pc \in {"done", "failed"}
    => \/ /\ guess_file = TsContent(guess_words, "GUESS_WORDS_CLEAN")
          /\ answer_file = TsContent(answer_words, "ANSWER_WORDS_EXPANDED")
       \/ /\ guess_file = OldGuessFile
          /\ answer_file = OldAnswerFile

\* C4: the guess list holds exactly the first TARGET_GUESS_SIZE survivors of
\* the guess filter ranked by score descending then word ascending, and the
\* answer list exactly the first TARGET_ANSWER_SIZE survivors of the answer filter
C4_TopRankedSelected ==
  /\ GuessDone => Range(guess_words) = TopRanked(GuessSurvivors, TARGET_GUESS_SIZE)
  /\ AnswerDone => Range(answer_words) = TopRanked(AnswerSurvivors, TARGET_ANSWER_SIZE)

\* C4 witness: both passes cut survivors off, the guess pass in the middle of a tie
C4_Witness ==
  /\ AnswerDone
  /\ Cardinality(GuessSurvivors) > TARGET_GUESS_SIZE
  /\ Cardinality(AnswerSurvivors) > TARGET_ANSWER_SIZE
  /\ \E v \in Range(guess_words), w \in GuessSurvivors \ Range(guess_words) :
       ScoreOf(v) = ScoreOf(w)

\* the guess lists generate_guess_words can return for the source words of
\* this run, one per order in which the source set can be iterated
GuessListsOverOrders ==
  {generate_guess_words(freq, order).final_words :
     freq \in {FrequencyScores(zipf, all_source_words)},
     order \in Orders(all_source_words)}

\* C5: whatever the order in which the source set is iterated, the
\* generators return the same two lists, those this run holds
C5_OrderIndependent ==
  pc = "validate"
    => \A lists \in {GuessListsOverOrders} :
         /\ lists = {guess_words}
         /\ {generate_answer_words(zipf, g).final_words : g \in lists} = {answer_words}

\* C5 witness: the guess pass cut the list between two survivors of equal score
C5_Witness ==
  /\ pc = "validate"
  /\ answer_words # <<>>
  /\ \E v \in Range(guess_words), w \in GuessSurvivors \ Range(guess_words) :
       ScoreOf(v) = ScoreOf(w)

\* C6: no blacklisted word is in the guess list or in the answer list
C6_NoBlacklistedWord ==
  /\ Range(guess_words) \cap Blacklisted = {}
  /\ Range(answer_words) \cap Blacklisted = {}

\* C6 witness: a word of each blacklist was a source word with the highest
\* score, and the guess list is not empty
C6_Witness ==
  /\ GuessDone
  /\ guess_words # <<>>
  /\ \E o \in OFFENSIVE_BLACKLIST \cap all_source_words : ScoreOf(o) >= MIN_ZIPF_ANSWER
  /\ \E n \in PROPER_NOUN_BLACKLIST \cap all_source_words : ScoreOf(n) >= MIN_ZIPF_ANSWER
  /\ \E g \in SCRABBLE_GARBAGE \cap all_source_words : ScoreOf(g) >= MIN_ZIPF_ANSWER

\* C7: every guess word scores at least MIN_ZIPF_GUESS, every answer word at
\* least MIN_ZIPF_ANSWER or at least SPICE_ZIPF_THRESHOLD, and the answer
\* pass counts as too rare only non-plural words below SPICE_ZIPF_THRESHOLD
C7_FrequencyFloors ==
  /\ \A w \in Range(guess_words) : ScoreOf(w) >= MIN_ZIPF_GUESS
  /\ \A w \in Range(answer_words) :
       ScoreOf(w) >= MIN_ZIPF_ANSWER \/ ScoreOf(w) >= SPICE_ZIPF_THRESHOLD
  /\ AnswerDone
       => /\ rejected_answer.too_rare =
               Cardinality({w \in Range(guess_words) :
                              /\ ~is_likely_plural(zipf, w)
                              /\ ScoreOf(w) < SPICE_ZIPF_THRESHOLD})
          /\ \A w \in Range(guess_words) :
               (/\ ~is_likely_plural(zipf, w)
                /\ ScoreOf(w) >= SPICE_ZIPF_THRESHOLD) => w \in AnswerSurvivors

\* C7 witness: an answer word in the spice band
C7_Witness ==
  /\ AnswerDone
  /\ \E w \in Range(answer_words) :
       ScoreOf(w) >= SPICE_ZIPF_THRESHOLD /\ ScoreOf(w) < MIN_ZIPF_ANSWER

RegressionCorpus ==
  /\ {"crass", "menil"} \subseteq wordlist
  /\ ScoreOf("CRASS") = 296
  /\ ScoreOf("MENIL") = 171

NoQuotedWord(text) == \A p \in 1..Len(text) : ~QuotedWordAt(text, p)

\* the text holds a [ with a ] somewhere behind it
HasBracketPair(text) ==
  \E i, j \in 1..Len(text) : i < j /\ CharAt(text, i) = "[" /\ CharAt(text, j) = "]"

\* C10 (as claimed): on an empty file the loader returns the empty set and
\* raises no error
C10_EmptyFileGivesEmptySet ==
  (pc \in {"ts_done", "ts_failed"} /\ ts_content = "")
    => ts_result.raised = "none" /\ ts_result.words = {}

\* C10 (amended): on a file without any quoted word the loader returns the
\* empty set and raises no error when the text has a [ with a ] behind it,
\* and raises ValueError when it has none, as the file of zero bytes
C10_NoWordsFile ==
  (pc \in {"ts_done", "ts_failed"} /\ NoQuotedWord(ts_content))
    => /\ HasBracketPair(ts_content)
            => ts_result.raised = "none" /\ ts_result.words = {}
       /\ ~HasBracketPair(ts_content) => ts_result.raised = "ValueError"
       /\ ts_content = "" => ts_result.raised = "ValueError"

\* C10 witness: the file of an empty list, as write_word_list_to_ts writes
\* it, was loaded as the empty set
C10_Witness ==
  /\ pc = "ts_done"
  /\ ts_content = TsContent(<<>>, "GUESS_WORDS")
  /\ ts_result.words = {}

\* validate_dictionaries has returned or raised
ValidatorDone == pc \in {"val_passed", "val_failed"}

\* the check an error message belongs to: 1 format, 2 duplicates, 3 subset,
\* 4 sort order, 5 regression tests
CheckOf(message) ==
  IF message[1] = "Invalid format" THEN 1
  ELSE IF message[1] \in {"GUESS_WORDS_CLEAN has duplicates",
                          "ANSWER_WORDS_EXPANDED has duplicates"} THEN 2
  ELSE IF message[1] = "Answer word not in guess words" THEN 3
  ELSE IF message[1] \in {"GUESS_WORDS_CLEAN not alphabetically sorted",
                          "ANSWER_WORDS_EXPANDED not alphabetically sorted"} THEN 4
  ELSE 5

\* the list has the same entry at two places
HasDuplicate(l) == \E i, j \in 1..Len(l) : i < j /\ l[i] = l[j]

\* the list is in ascending order, equal entries allowed
Ascending(l) == \A i, j \in 1..Len(l) : i < j => ~StrLess(l[j], l[i])

\* the checks, 1 to 5, that the two lists violate; of the regression tests,
\* those the validator counts as errors
ViolatedChecks(guess_list, answer_list) ==
  {c \in 1..5 :
     \/ c = 1 /\ \E w \in Range(guess_list) \cup Range(answer_list) : ~MatchesWordFormat(w)
     \/ c = 2 /\ (HasDuplicate(guess_list) \/ HasDuplicate(answer_list))
     \/ c = 3 /\ ~(Range(answer_list) \subseteq Range(guess_list))
     \/ c = 4 /\ (~Ascending(guess_list) \/ ~Ascending(answer_list))
     \/ c = 5 /\ \/ "CRASS" \notin Range(guess_list)
                 \/ "MENIL" \in Range(guess_list) \cup Range(answer_list)
                 \/ Range(garbage_words) \cap Range(guess_list) # {}}

\* C11: the errors list holds a message of every check the lists violate and
\* of no other check, whatever the earlier checks found, and its messages
\* come in the order format, duplicates, subset, sort order, regression tests
C11_EveryViolatedCheckReported ==
  ValidatorDone
    => /\ {CheckOf(errors[i]) : i \in 1..Len(errors)}
            = ViolatedChecks(guess_words, answer_words)
       /\ \A i, j \in 1..Len(errors) : i < j => CheckOf(errors[i]) <= CheckOf(errors[j])
       /\ \A w \in Range(guess_words) \cup Range(answer_words) :
            ~MatchesWordFormat(w) => <<"Invalid format", w>> \in Range(errors)
       /\ \A w \in Range(answer_words) \ Range(guess_words) :
            <<"Answer word not in guess words", w>> \in Range(errors)

\* C11 witness: lists that violate all five checks, each of them reported
C11_Witness ==
  /\ pc = "val_failed"
  /\ ViolatedChecks(guess_words, answer_words) = 1..5
  /\ {CheckOf(errors[i]) : i \in 1..Len(errors)} = 1..5

\* C12 (as claimed): validation fails whenever CRASS is missing from the
\* guess list or from the answer list, and whenever MENIL or a named garbage
\* word is in the guess list or in the answer list
C12_EachListIndependently ==
  (/\ ValidatorDone
   /\ \/ "CRASS" \notin Range(guess_words)
      \/ "CRASS" \notin Range(answer_words)
      \/ "MENIL" \in Range(guess_words) \cup Range(answer_words)
      \/ Range(garbage_words) \cap (Range(guess_words) \cup Range(answer_words)) # {})
    => pc = "val_failed"

\* C12 (amended): validation fails, with the message of the assertion,
\* whenever CRASS is missing from the guess list, MENIL is in the guess list
\* or in the answer list, or a named garbage word is in the guess list; a
\* named garbage word in the answer list alone makes it fail by the subset
\* check; CRASS missing from the answer list alone does not make it fail
C12_RegressionAssertions ==
  ValidatorDone
    => /\ "CRASS" \notin Range(guess_words)
            => /\ pc = "val_failed"
               /\ <<"CRASS missing from GUESS_WORDS_CLEAN">> \in Range(errors)
       /\ "MENIL" \in Range(guess_words)
            => /\ pc = "val_failed"
               /\ <<"MENIL present in GUESS_WORDS_CLEAN">> \in Range(errors)
       /\ "MENIL" \in Range(answer_words)
            => /\ pc = "val_failed"
               /\ <<"MENIL present in ANSWER_WORDS_EXPANDED">> \in Range(errors)
       /\ Range(garbage_words) \cap Range(guess_words) # {}
            => /\ pc = "val_failed"
               /\ \E i \in 1..Len(errors) :
                    /\ errors[i][1] = "Garbage words present"
                    /\ Range(errors[i][2]) = Range(garbage_words) \cap Range(guess_words)
       /\ \A w \in (Range(garbage_words) \cap Range(answer_words)) \ Range(guess_words) :
            /\ pc = "val_failed"
            /\ <<"Answer word not in guess words", w>> \in Range(errors)
       /\ (/\ "CRASS" \notin Range(answer_words)
           /\ ViolatedChecks(guess_words, answer_words) = {})
            => pc = "val_passed" /\ errors = <<>>

\* C12 witness: validation passed lists with CRASS in the guess list and
\* missing from a non-empty answer list
C12_Witness ==
  /\ pc = "val_passed"
  /\ "CRASS" \in Range(guess_words)
  /\ "CRASS" \notin Range(answer_words)
  /\ answer_words # <<>>

\* the places of the list given to the answer pass whose word satisfies P
PlacesWhere(P(_)) == {i \in 1..Len(guess_words) : P(guess_words[i])}

\* the frequency rule of the answer pass fires for the word
FrequencyRuleFires(word) ==
  ScoreOf(word) < MIN_ZIPF_ANSWER /\ ScoreOf(word) < SPICE_ZIPF_THRESHOLD

PluralByRule(word) ==
  /\ CharAt(word, Len(word)) = "S"
  /\ SubSeq(word, Len(word) - 1, Len(word)) \notin {"SS", "US", "IS", "AS"}
  /\ word \notin non_plural_words
  /\ ScoreOf(SubSeq(word, 1, 4)) > 200

\* C14: is_likely_plural holds of a five-letter word exactly when the word
\* is a plural by that rule; it never holds of GLASS or CROSS; no word it
\* holds of is in the answer list
C14_PluralRule ==
  pc = "ans_done"
    => /\ \A w \in Range(guess_words) : is_likely_plural(zipf, w) <=> PluralByRule(w)
       /\ ~is_likely_plural(zipf, "GLASS")
       /\ ~is_likely_plural(zipf, "CROSS")
       /\ \A w \in Range(answer_words) : ~is_likely_plural(zipf, w)

\* C14 witness: CARDS was dropped as a plural, and GLASS, whose stem scores
\* above the floor, is in the answer list
C14_Witness ==
  /\ pc = "ans_done"
  /\ "CARDS" \in Range(guess_words)
  /\ is_likely_plural(zipf, "CARDS")
  /\ rejected_answer.plural = 1
  /\ ScoreOf("GLAS") > 200
  /\ "GLASS" \in Range(answer_words)

\* C15: in a run of main the frequency rule of the answer pass rejects
\* nothing, the words its filter lets through are exactly the guess words
\* that are not plurals, and every answer word scores at least MIN_ZIPF_GUESS
C15_AnswerPassNeverTooRare ==
  AnswerDone
    => /\ rejected_answer.too_rare = 0
       /\ AnswerSurvivors = {w \in Range(guess_words) : ~is_likely_plural(zipf, w)}
       /\ rejected_answer.plural =
            Cardinality({w \in Range(guess_words) : is_likely_plural(zipf, w)})
       /\ \A w \in Range(answer_words) : ScoreOf(w) >= MIN_ZIPF_GUESS

\* C15 witness: the answer pass dropped a plural and kept a word that scores
\* below MIN_ZIPF_ANSWER
C15_Witness ==
  /\ AnswerDone
  /\ rejected_answer.plural >= 1
  /\ rejected_answer.too_rare = 0
  /\ \E w \in Range(answer_words) : ScoreOf(w) < MIN_ZIPF_ANSWER

====
